---- MODULE Spec2Model ----
(***************************************************************************)
(* Model of the libabort crate: the build script (build.rs) that selects   *)
(* one trap implementation and one abort implementation, the conditional   *)
(* compilation of src/lib.rs under the emitted cfg values, and the runtime *)
(* primitives abort(), immediate_abort(), trap(), fallback_abort() and     *)
(* AbortGuard running on top of the Rust panic runtime.                    *)
(***************************************************************************)
EXTENDS Integers, Sequences, FiniteSets, TLC

\* ------------------------------------------------------------------ bounds
\* newest toolchain minor version (1.MaxMinor) the model enumerates
MaxMinor == 60
\* how many AbortGuard values the calling program creates at most
MaxGuards == 2
\* how many times cargo runs the build script for one configuration under
\* BuildSpec
MaxBuildRuns == 2

\* ------------------------------------------------------- program constants
\* build.rs:6   RUST_VERSION.is_since_minor_version(1, 60)
MIN_CFG_PANIC == 60
\* build.rs:28  RUST_VERSION.is_since_minor_version(1, 37)
MIN_WASM32_UNREACHABLE == 37
\* build.rs:44  RUST_VERSION.is_since_minor_version(1, 59)
MIN_ASM == 59

\* the message of every panic the crate raises (lib.rs:131)
FATAL_MSG == "fatal error - aborting"
\* the message of a panic raised by the calling program itself
USER_MSG == "user panic"

\* ------------------------------------------------------------ input spaces
Archs == {"x86_64", "x86", "arm", "aarch64", "wasm32", "wasm64", "riscv64"}

VersionThresholds == {MIN_CFG_PANIC, MIN_WASM32_UNREACHABLE, MIN_ASM}

\* toolchain minor versions: each threshold, the version just below it, and
\* the newest version
RustMinors ==
    {v \in 0..MaxMinor :
        \/ v = MaxMinor
        \/ \E t \in VersionThresholds : v = t \/ v + 1 = t}

FeatureNames == {"std", "libc", "abort-via-trap", "always-immediate-abort"}

TrapImpls == {"core-intrinsics", "assembly", "wasm32-intrinsic",
              "wasm64-intrinsic", "fallback"}

AbortImpls == {"std", "libc", "trap", "fallback"}

PanicStrategies == {"abort", "unwind"}

VARIABLES
    target_arch,     \* CARGO_CFG_TARGET_ARCH
    rust_minor,      \* RUST_VERSION, minor number of 1.x
    nightly,         \* RUST_VERSION.is_nightly()
    features,        \* enabled cargo features (CARGO_FEATURE_*)
    panic_strategy,  \* -C panic=abort | unwind of the final artifact
    hook,            \* "default" or "custom" panic hook of the program
    cfgs,            \* cargo:rustc-cfg lines of the last build script run
    prevCfgs,        \* the lines of the run before it, NoRun before the second
    runs,            \* build script runs so far
    buildState,      \* "pending", "scripted", "compiled", "failed"
    buildError,      \* why compilation failed
    stack,           \* call stack, bottom is the calling program's main
    mode,            \* "call": top frame executes, "unwind": it is unwound
    proc,            \* process state
    via,             \* the facility that terminated the process
    panicking,       \* a panic is propagating
    panics,          \* messages of the panics raised so far
    stderr,          \* messages printed by the default panic hook
    hookRuns,        \* invocations of the panic hook
    dpGuard,         \* DoublePanicGuard local of fallback_abort
    created,         \* AbortGuard values created
    defused,         \* AbortGuard values consumed by defuse()
    dropped,         \* AbortGuard values whose Drop ran
    entered          \* functions of the crate entered so far

inputVars == <<target_arch, rust_minor, nightly, features, panic_strategy, hook>>
buildVars == <<cfgs, prevCfgs, runs, buildState, buildError>>
runVars == <<stack, mode, proc, via, panicking, panics, stderr, hookRuns,
             dpGuard, created, defused, dropped, entered>>
vars == <<inputVars, buildVars, runVars>>

NoRun == {<<"no-run", "">>}

\* ----------------------------------------------------------------- build.rs
\* RUST_VERSION.is_since_minor_version(1, minor)
IsSinceMinorVersion(v, minor) == v >= minor

\* has_cargo_feature(name)
HasCargoFeature(feats, name) == name \in feats

\* build.rs:24-27
SupportedArch(arch) == arch \in {"x86_64", "x86", "arm", "aarch64"}

\* faulty variant of TrapImplName: the last branch yields a name outside the
\* closed set
TrapImplName_Unavailable(arch, minor, isNightly) ==
    IF arch = "wasm32" /\ IsSinceMinorVersion(minor, MIN_WASM32_UNREACHABLE)
    THEN "wasm32-intrinsic"
    ELSE IF arch = "wasm64" /\ isNightly
    THEN "wasm64-intrinsic"
    ELSE IF isNightly
    THEN "core-intrinsics"
    ELSE IF SupportedArch(arch) /\ IsSinceMinorVersion(minor, MIN_ASM)
    THEN "assembly"
    ELSE "unavailable"

\* faulty variant of TrapImplName: assembly without the toolchain version test
TrapImplName_NoAsmVersion(arch, minor, isNightly) ==
    IF arch = "wasm32" /\ IsSinceMinorVersion(minor, MIN_WASM32_UNREACHABLE)
    THEN "wasm32-intrinsic"
    ELSE IF arch = "wasm64" /\ isNightly
    THEN "wasm64-intrinsic"
    ELSE IF isNightly
    THEN "core-intrinsics"
    ELSE IF SupportedArch(arch)
    THEN "assembly"
    ELSE "fallback"

\* build.rs:28-48
TrapImplName(arch, minor, isNightly) ==
    IF arch = "wasm32" /\ IsSinceMinorVersion(minor, MIN_WASM32_UNREACHABLE)
    THEN "wasm32-intrinsic"
    ELSE IF arch = "wasm64" /\ isNightly
    THEN "wasm64-intrinsic"
    ELSE IF isNightly
    THEN "core-intrinsics"
    ELSE IF SupportedArch(arch) /\ IsSinceMinorVersion(minor, MIN_ASM)
    THEN "assembly"
    ELSE "fallback"

\* faulty variant of AbortImplName: libc is tested before std
AbortImplName_LibcFirst(feats, trapImplName) ==
    IF HasCargoFeature(feats, "libc")
    THEN "libc"
    ELSE IF HasCargoFeature(feats, "std")
    THEN "std"
    ELSE IF HasCargoFeature(feats, "abort-via-trap") /\ trapImplName # "fallback"
    THEN "trap"
    ELSE "fallback"

\* faulty variant of AbortImplName: abort-via-trap without looking at the
\* selected trap implementation
AbortImplName_TrapUnchecked(feats, trapImplName) ==
    IF HasCargoFeature(feats, "std")
    THEN "std"
    ELSE IF HasCargoFeature(feats, "libc")
    THEN "libc"
    ELSE IF HasCargoFeature(feats, "abort-via-trap")
    THEN "trap"
    ELSE "fallback"

\* build.rs:60-68
AbortImplName(feats, trapImplName) ==
    IF HasCargoFeature(feats, "std")
    THEN "std"
    ELSE IF HasCargoFeature(feats, "libc")
    THEN "libc"
    ELSE IF HasCargoFeature(feats, "abort-via-trap") /\ trapImplName # "fallback"
    THEN "trap"
    ELSE "fallback"

\* the cargo:rustc-cfg lines main() prints (build.rs:6-8, 59, 70)
EmittedCfgs(arch, minor, isNightly, feats) ==
    LET trap_impl_name == TrapImplName(arch, minor, isNightly)
        abort_impl_name == AbortImplName(feats, trap_impl_name)
    IN  (IF IsSinceMinorVersion(minor, MIN_CFG_PANIC)
            THEN {<<"has_cfg_panic", "">>} ELSE {})
        \cup (IF isNightly THEN {<<"has_doc_cfg", "">>} ELSE {})
        \cup {<<"trap_impl", trap_impl_name>>}
        \cup {<<"abort_impl", abort_impl_name>>}

\* main() of build.rs prints its lines, which replace those of the run before
RunBuildScript ==
    /\ runs' = runs + 1
    /\ prevCfgs' = IF runs = 0 THEN NoRun ELSE cfgs
    /\ cfgs' = EmittedCfgs(target_arch, rust_minor, nightly, features)
    /\ buildState' = "scripted"
    /\ UNCHANGED <<buildError, inputVars, runVars>>

\* cargo runs the build script before it compiles the crate
BuildScript ==
    /\ buildState = "pending"
    /\ RunBuildScript

\* cargo runs the build script again on unchanged inputs, e.g. after a clean
Rerun ==
    /\ buildState = "scripted"
    /\ runs < MaxBuildRuns
    /\ RunBuildScript

\* ------------------------------------------------- src/lib.rs, compile time
\* #[cfg(name = "value")] under the emitted lines
Cfg(name, value) == <<name, value>> \in cfgs

\* #[cfg(feature = "name")]
FeatureCfg(name) == name \in features

\* lib.rs:121  fallback_abort is compiled
FallbackAbortExists == Cfg("abort_impl", "fallback")

\* lib.rs:82   immediate_abort is compiled
ImmediateAbortExists == ~Cfg("abort_impl", "fallback")

\* lib.rs:197  invoke_trap is compiled
InvokeTrapExists == ~Cfg("trap_impl", "fallback")

\* faulty variant of CompileErrorExpanded: the compile_error! sits outside of
\* fallback_abort
CompileErrorExpanded_Ungated == FeatureCfg("always-immediate-abort")

\* lib.rs:125-128  the compile_error! invocation survives cfg stripping
CompileErrorExpanded ==
    FallbackAbortExists /\ FeatureCfg("always-immediate-abort")

\* lib.rs:89-105  what the body of immediate_abort calls
ImmediateAbortBody ==
    IF Cfg("abort_impl", "std") THEN "std::process::abort"
    ELSE IF Cfg("abort_impl", "libc") THEN "libc::abort"
    ELSE IF Cfg("abort_impl", "trap") THEN "invoke_trap"
    ELSE "missing"

\* lib.rs:199-237  the instruction or intrinsic the body of invoke_trap is
InvokeTrapBody ==
    IF Cfg("trap_impl", "wasm32-intrinsic")
    THEN (IF target_arch = "wasm32" THEN "wasm32::unreachable" ELSE "missing")
    ELSE IF Cfg("trap_impl", "wasm64-intrinsic")
    THEN (IF target_arch = "wasm64" THEN "wasm64::unreachable" ELSE "missing")
    ELSE IF Cfg("trap_impl", "core-intrinsics")
    THEN "core::intrinsics::abort"
    ELSE IF Cfg("trap_impl", "assembly")
    THEN (IF target_arch \in {"x86", "x86_64"} THEN "ud2"
          ELSE IF target_arch \in {"aarch64", "arm"} THEN "udf"
          ELSE "missing")
    ELSE "missing"

TrapInstructions ==
    {"wasm32::unreachable", "wasm64::unreachable", "core::intrinsics::abort",
     "ud2", "udf"}

\* a function that is compiled has no body, or calls something that is not
\* compiled or not linked
MissingImpl ==
    \/ ImmediateAbortExists /\ ImmediateAbortBody = "missing"
    \/ InvokeTrapExists /\ InvokeTrapBody = "missing"
    \/ ImmediateAbortExists /\ ImmediateAbortBody = "invoke_trap"
         /\ ~InvokeTrapExists
    \/ ImmediateAbortExists /\ ImmediateAbortBody = "std::process::abort"
         /\ ~FeatureCfg("std")
    \/ ImmediateAbortExists /\ ImmediateAbortBody = "libc::abort"
         /\ ~FeatureCfg("libc")

\* rustc compiles src/lib.rs under the emitted cfg lines
Compile ==
    /\ buildState = "scripted"
    /\ IF CompileErrorExpanded
       THEN buildState' = "failed" /\ buildError' = "compile_error"
                /\ UNCHANGED proc
       ELSE IF MissingImpl
       THEN buildState' = "failed" /\ buildError' = "missing_impl"
                /\ UNCHANGED proc
       ELSE buildState' = "compiled" /\ buildError' = "none"
                /\ proc' = "running"
    /\ UNCHANGED <<cfgs, prevCfgs, runs, inputVars>>
    /\ UNCHANGED <<stack, mode, via, panicking, panics, stderr, hookRuns,
                   dpGuard, created, defused, dropped, entered>>

\* ------------------------------------------------------ src/lib.rs, runtime
Top == stack[Len(stack)]

Pop == SubSeq(stack, 1, Len(stack) - 1)

Executing(f) == proc = "running" /\ mode = "call" /\ Top = f

\* call f from the top frame
Push(f) ==
    /\ stack' = Append(stack, f)
    /\ entered' = entered \cup {f}

\* the process ends in the given facility
Terminate(facility) ==
    /\ proc' = "terminated"
    /\ via' = facility

\* AbortGuard values that are alive and not defused
Armed == created - defused - dropped

\* panic!(msg) in the Rust panic runtime: the hook runs, then a panic raised
\* while another one propagates aborts, a panic under panic=abort aborts, and
\* any other panic starts unwinding (lib.rs:130-132, 158, 163)
Panic(msg) ==
    /\ panics' = Append(panics, msg)
    /\ hookRuns' = hookRuns + 1
    /\ stderr' = IF hook = "default" THEN Append(stderr, msg) ELSE stderr
    /\ IF panicking
       THEN Terminate("panic-while-panicking") /\ UNCHANGED <<mode, panicking>>
       ELSE IF panic_strategy = "abort"
       THEN Terminate("panic-abort") /\ UNCHANGED <<mode, panicking>>
       ELSE panicking' = TRUE /\ mode' = "unwind" /\ UNCHANGED <<proc, via>>

\* lib.rs:145-154
PANIC_DOES_ABORT ==
    IF Cfg("has_cfg_panic", "") THEN panic_strategy = "abort" ELSE FALSE

\* faulty variant of abort: the fallback is used in every configuration
abort_AlwaysFallback ==
    /\ Executing("abort")
    /\ Push("fallback_abort")
    /\ UNCHANGED <<mode, proc, via, panicking, panics, stderr, hookRuns,
                   dpGuard, created, defused, dropped>>
    /\ UNCHANGED <<inputVars, buildVars>>

\* lib.rs:62-72
abort ==
    /\ Executing("abort")
    /\ IF ~Cfg("abort_impl", "fallback")
       THEN Push("immediate_abort")
       ELSE Push("fallback_abort")
    /\ UNCHANGED <<mode, proc, via, panicking, panics, stderr, hookRuns,
                   dpGuard, created, defused, dropped>>
    /\ UNCHANGED <<inputVars, buildVars>>

\* lib.rs:89-105
immediate_abort ==
    /\ Executing("immediate_abort")
    /\ IF ImmediateAbortBody = "invoke_trap"
       THEN Push("invoke_trap") /\ UNCHANGED <<proc, via>>
       ELSE Terminate(ImmediateAbortBody) /\ UNCHANGED <<stack, entered>>
    /\ UNCHANGED <<mode, panicking, panics, stderr, hookRuns,
                   dpGuard, created, defused, dropped>>
    /\ UNCHANGED <<inputVars, buildVars>>

\* faulty variant of fallback_abort: a single panic in every configuration
fallback_abort_NoGuard ==
    /\ Executing("fallback_abort")
    /\ Push("do_panic")
    /\ UNCHANGED <<mode, proc, via, panicking, panics, stderr, hookRuns,
                   dpGuard, created, defused, dropped>>
    /\ UNCHANGED <<inputVars, buildVars>>

\* lib.rs:124-169
fallback_abort ==
    /\ Executing("fallback_abort")
    /\ IF PANIC_DOES_ABORT
       THEN UNCHANGED dpGuard
       ELSE dpGuard' = "live"
    /\ Push("do_panic")
    /\ UNCHANGED <<mode, proc, via, panicking, panics, stderr, hookRuns,
                   created, defused, dropped>>
    /\ UNCHANGED <<inputVars, buildVars>>

\* lib.rs:130-132
do_panic ==
    /\ Executing("do_panic")
    /\ Panic(FATAL_MSG)
    /\ UNCHANGED <<stack, entered, dpGuard, created, defused, dropped>>
    /\ UNCHANGED <<inputVars, buildVars>>

\* faulty variant of DoublePanicGuard_drop: the destructor returns, and the
\* unwinder goes on with the frame of fallback_abort
DoublePanicGuard_drop_Returns ==
    /\ Executing("DoublePanicGuard_drop")
    /\ stack' = Pop
    /\ mode' = "unwind"
    /\ UNCHANGED <<entered, proc, via, panicking, panics, stderr, hookRuns,
                   dpGuard, created, defused, dropped>>
    /\ UNCHANGED <<inputVars, buildVars>>

\* lib.rs:160-165
DoublePanicGuard_drop ==
    /\ Executing("DoublePanicGuard_drop")
    /\ Push("do_panic")
    /\ UNCHANGED <<mode, proc, via, panicking, panics, stderr, hookRuns,
                   dpGuard, created, defused, dropped>>
    /\ UNCHANGED <<inputVars, buildVars>>

\* faulty variant of trap: it delegates to abort() in every configuration
trap_AlwaysAbort ==
    /\ Executing("trap")
    /\ Push("abort")
    /\ UNCHANGED <<mode, proc, via, panicking, panics, stderr, hookRuns,
                   dpGuard, created, defused, dropped>>
    /\ UNCHANGED <<inputVars, buildVars>>

\* lib.rs:181-190
trap ==
    /\ Executing("trap")
    /\ IF ~Cfg("trap_impl", "fallback")
       THEN Push("invoke_trap")
       ELSE Push("abort")
    /\ UNCHANGED <<mode, proc, via, panicking, panics, stderr, hookRuns,
                   dpGuard, created, defused, dropped>>
    /\ UNCHANGED <<inputVars, buildVars>>

\* lib.rs:199-237
invoke_trap ==
    /\ Executing("invoke_trap")
    /\ Terminate(InvokeTrapBody)
    /\ UNCHANGED <<stack, entered, mode, panicking, panics, stderr, hookRuns,
                   dpGuard, created, defused, dropped>>
    /\ UNCHANGED <<inputVars, buildVars>>

\* lib.rs:270-276
AbortGuard_drop ==
    /\ Executing("AbortGuard_drop")
    /\ Push("abort")
    /\ UNCHANGED <<mode, proc, via, panicking, panics, stderr, hookRuns,
                   dpGuard, created, defused, dropped>>
    /\ UNCHANGED <<inputVars, buildVars>>

\* the unwinder leaves the top frame: it runs the destructors of the frame's
\* live locals, then pops it; leaving main lets the panic out of the caller
Unwind ==
    /\ proc = "running"
    /\ mode = "unwind"
    /\ IF Top = "main"
       THEN IF Armed > 0
            THEN /\ dropped' = dropped + 1
                 /\ Push("AbortGuard_drop")
                 /\ mode' = "call"
                 /\ UNCHANGED <<proc, dpGuard>>
            ELSE /\ proc' = "unwound"
                 /\ UNCHANGED <<stack, entered, mode, dropped, dpGuard>>
       ELSE IF Top = "fallback_abort" /\ dpGuard = "live"
       THEN /\ dpGuard' = "dropped"
            /\ Push("DoublePanicGuard_drop")
            /\ mode' = "call"
            /\ UNCHANGED <<proc, dropped>>
       ELSE /\ stack' = Pop
            /\ UNCHANGED <<entered, mode, proc, dropped, dpGuard>>
    /\ UNCHANGED <<via, panicking, panics, stderr, hookRuns, created, defused>>
    /\ UNCHANGED <<inputVars, buildVars>>

\* --------------------------------------------------- the calling program
\* examples/abortcli.rs: libabort::abort()
CallAbort ==
    /\ Executing("main")
    /\ Push("abort")
    /\ UNCHANGED <<mode, proc, via, panicking, panics, stderr, hookRuns,
                   dpGuard, created, defused, dropped>>
    /\ UNCHANGED <<inputVars, buildVars>>

\* examples/trapcli.rs: libabort::trap()
CallTrap ==
    /\ Executing("main")
    /\ Push("trap")
    /\ UNCHANGED <<mode, proc, via, panicking, panics, stderr, hookRuns,
                   dpGuard, created, defused, dropped>>
    /\ UNCHANGED <<inputVars, buildVars>>

\* a call of libabort::immediate_abort(), which compiles only if it exists
CallImmediateAbort ==
    /\ Executing("main")
    /\ ImmediateAbortExists
    /\ Push("immediate_abort")
    /\ UNCHANGED <<mode, proc, via, panicking, panics, stderr, hookRuns,
                   dpGuard, created, defused, dropped>>
    /\ UNCHANGED <<inputVars, buildVars>>

\* lib.rs:252-254  AbortGuard::new()
AbortGuard_new ==
    /\ Executing("main")
    /\ created < MaxGuards
    /\ created' = created + 1
    /\ UNCHANGED <<stack, entered, mode, proc, via, panicking, panics, stderr,
                   hookRuns, dpGuard, defused, dropped>>
    /\ UNCHANGED <<inputVars, buildVars>>

\* faulty variant of AbortGuard_defuse: the guard is dropped, not forgotten
AbortGuard_defuse_Drops ==
    /\ Executing("main")
    /\ Armed > 0
    /\ defused' = defused + 1
    /\ Push("AbortGuard_drop")
    /\ UNCHANGED <<mode, proc, via, panicking, panics, stderr,
                   hookRuns, dpGuard, created, dropped>>
    /\ UNCHANGED <<inputVars, buildVars>>

\* lib.rs:260-262  AbortGuard::defuse(self): core::mem::forget(self)
AbortGuard_defuse ==
    /\ Executing("main")
    /\ Armed > 0
    /\ defused' = defused + 1
    /\ UNCHANGED <<stack, entered, mode, proc, via, panicking, panics, stderr,
                   hookRuns, dpGuard, created, dropped>>
    /\ UNCHANGED <<inputVars, buildVars>>

\* main reaches the end of its scope: a guard that is still armed is dropped,
\* and without one the program exits normally
ScopeExit ==
    /\ Executing("main")
    /\ IF Armed > 0
       THEN /\ dropped' = dropped + 1
            /\ Push("AbortGuard_drop")
            /\ UNCHANGED proc
       ELSE /\ proc' = "exited"
            /\ UNCHANGED <<stack, entered, dropped>>
    /\ UNCHANGED <<mode, via, panicking, panics, stderr, hookRuns,
                   dpGuard, created, defused>>
    /\ UNCHANGED <<inputVars, buildVars>>

\* the guarded section of the calling program panics
UserPanic ==
    /\ Executing("main")
    /\ Armed > 0
    /\ Panic(USER_MSG)
    /\ UNCHANGED <<stack, entered, dpGuard, created, defused, dropped>>
    /\ UNCHANGED <<inputVars, buildVars>>

\* ------------------------------------------------------------ specification
Init ==
    /\ target_arch \in Archs
    /\ rust_minor \in RustMinors
    /\ nightly \in BOOLEAN
    /\ features \in SUBSET FeatureNames
    /\ panic_strategy \in PanicStrategies
    /\ hook \in {"default", "custom"}
    /\ cfgs = {}
    /\ prevCfgs = NoRun
    /\ runs = 0
    /\ buildState = "pending"
    /\ buildError = "none"
    /\ stack = <<"main">>
    /\ mode = "call"
    /\ proc = "unbuilt"
    /\ via = "none"
    /\ panicking = FALSE
    /\ panics = <<>>
    /\ stderr = <<>>
    /\ hookRuns = 0
    /\ dpGuard = "none"
    /\ created = 0
    /\ defused = 0
    /\ dropped = 0
    /\ entered = {}

Next ==
    \/ BuildScript
    \/ Compile
    \/ CallAbort
    \/ CallTrap
    \/ CallImmediateAbort
    \/ AbortGuard_new
    \/ AbortGuard_defuse
    \/ ScopeExit
    \/ UserPanic
    \/ abort
    \/ immediate_abort
    \/ fallback_abort
    \/ do_panic
    \/ DoublePanicGuard_drop
    \/ trap
    \/ invoke_trap
    \/ AbortGuard_drop
    \/ Unwind

Spec == Init /\ [][Next]_vars

\* the build alone, with repeated runs of the build script
BuildNext ==
    \/ BuildScript
    \/ Rerun
    \/ Compile

BuildSpec == Init /\ [][BuildNext]_vars

TypeOK ==
    /\ proc \in {"unbuilt", "running", "terminated", "exited", "unwound"}
    /\ mode \in {"call", "unwind"}
    /\ Len(stack) >= 1

\* a thread of a running process keeps executing
FairSpec == Spec /\ WF_vars(Next)

\* ------------------------------------------------------------------ helpers
\* the values emitted for one cfg name
CfgValues(name) == {p[2] : p \in {q \in cfgs : q[1] = name}}

Scripted == buildState # "pending"

Range(seq) == {seq[i] : i \in 1..Len(seq)}

\* panics raised with the crate's message
FatalCount == Cardinality({i \in 1..Len(panics) : panics[i] = FATAL_MSG})

UserPanicked == USER_MSG \in Range(panics)

NoRepeatedFrame ==
    \A i, j \in 1..Len(stack) : i # j => stack[i] # stack[j]

\* the calling program has called abort() or trap(), directly or through the
\* release action of an AbortGuard
Called == "abort" \in entered \/ "trap" \in entered

\* the calling program has called one of the three public functions itself
ApiCalled == Len(stack) >= 2 /\ stack[2] \in {"abort", "trap", "immediate_abort"}

\* ------------------------------------------------------------------- claims

\* C1: in every configuration a call of abort() or trap() never returns to
\* its caller and never unwinds into caller code; no function occurs twice on
\* the call chain, a trap() that delegates to abort() never comes back to
\* invoke_trap(), and the call always leads to a terminated process.
C1_Safe ==
    /\ proc # "unwound"
    /\ NoRepeatedFrame
    /\ Called => /\ Len(stack) >= 2
                 /\ stack[1] = "main"
                 /\ proc \in {"running", "terminated"}
    /\ ("trap" \in entered /\ "abort" \in entered) => "invoke_trap" \notin entered

C1_NeverReturns == []C1_Safe /\ (Called ~> (proc = "terminated"))

\* C1 witness: trap() delegated to abort(), which ran the fallback protocol
\* with two panics, and the process is terminated
C1_Witness ==
    /\ proc = "terminated"
    /\ entered = {"trap", "abort", "fallback_abort", "do_panic",
                  "DoublePanicGuard_drop"}
    /\ via = "panic-while-panicking"

\* C2: every run of the build script emits exactly one trap_impl value and
\* exactly one abort_impl value, each from its closed set, and a second run
\* on the same inputs emits the same lines.
C2_SelectorTotal ==
    Scripted =>
        /\ Cardinality(CfgValues("trap_impl")) = 1
        /\ CfgValues("trap_impl") \subseteq TrapImpls
        /\ Cardinality(CfgValues("abort_impl")) = 1
        /\ CfgValues("abort_impl") \subseteq AbortImpls
        /\ runs >= 2 => prevCfgs = cfgs

\* C2 witness: a target without any trap support, built twice
C2_Witness ==
    /\ runs = 2
    /\ target_arch = "riscv64"
    /\ ~nightly
    /\ features = {}
    /\ cfgs = {<<"trap_impl", "fallback">>, <<"abort_impl", "fallback">>}
               \cup (IF rust_minor >= MIN_CFG_PANIC
                     THEN {<<"has_cfg_panic", "">>} ELSE {})

\* C3: abort_impl is std if the std feature is on; else libc if the libc
\* feature is on; else trap if abort-via-trap is on and trap_impl is not
\* fallback; else fallback.
C3_AbortPriority ==
    Scripted =>
        /\ "std" \in features => Cfg("abort_impl", "std")
        /\ ("std" \notin features /\ "libc" \in features)
              => Cfg("abort_impl", "libc")
        /\ ({"std", "libc"} \cap features = {}
              /\ "abort-via-trap" \in features
              /\ ~Cfg("trap_impl", "fallback"))
              => Cfg("abort_impl", "trap")
        /\ ({"std", "libc"} \cap features = {}
              /\ ("abort-via-trap" \notin features
                    \/ Cfg("trap_impl", "fallback")))
              => Cfg("abort_impl", "fallback")

\* C3 witness: std, libc and abort-via-trap are all enabled and a trap exists
C3_Witness ==
    /\ Scripted
    /\ {"std", "libc", "abort-via-trap"} \subseteq features
    /\ ~Cfg("trap_impl", "fallback")
    /\ Cfg("abort_impl", "std")

\* the platform intrinsic of the target family is usable by the toolchain
\* (build.rs:28 and build.rs:34)
PlatformIntrinsic ==
    IF target_arch = "wasm32" /\ rust_minor >= MIN_WASM32_UNREACHABLE
    THEN "wasm32-intrinsic"
    ELSE IF target_arch = "wasm64" /\ nightly
    THEN "wasm64-intrinsic"
    ELSE "none"

\* C4 as stated: the platform intrinsic if available; else core-intrinsics
\* on a toolchain exposing it; else assembly on x86, x86_64, arm, aarch64;
\* else fallback.
C4_Original ==
    Scripted =>
        Cfg("trap_impl",
            IF PlatformIntrinsic # "none" THEN PlatformIntrinsic
            ELSE IF nightly THEN "core-intrinsics"
            ELSE IF target_arch \in {"x86", "x86_64", "arm", "aarch64"}
            THEN "assembly"
            ELSE "fallback")

\* C4 amended: the platform intrinsic if available; else core-intrinsics on
\* a nightly toolchain; else assembly on x86, x86_64, arm, aarch64 when the
\* toolchain is at least 1.59; else fallback.
C4_TrapPriority ==
    Scripted =>
        Cfg("trap_impl",
            IF PlatformIntrinsic # "none" THEN PlatformIntrinsic
            ELSE IF nightly THEN "core-intrinsics"
            ELSE IF target_arch \in {"x86", "x86_64", "arm", "aarch64"}
                    /\ rust_minor >= MIN_ASM
            THEN "assembly"
            ELSE "fallback")

\* C4 witness: a supported architecture on a stable toolchain older than
\* 1.59 gets the fallback
C4_Witness ==
    /\ Scripted
    /\ target_arch = "x86_64"
    /\ ~nightly
    /\ rust_minor < MIN_ASM
    /\ Cfg("trap_impl", "fallback")

\* C5: the selected strategies are available: abort_impl = trap only with a
\* trap_impl other than fallback and with abort-via-trap requested; assembly
\* only on x86, x86_64, arm, aarch64; a wasm intrinsic only on its own
\* architecture; std only with the std feature; libc only with the libc
\* feature and without std; and neither compilation nor execution meets a
\* missing implementation.
C5_NeverUnavailable ==
    Scripted =>
        /\ Cfg("abort_impl", "trap") =>
              ~Cfg("trap_impl", "fallback") /\ "abort-via-trap" \in features
        /\ Cfg("trap_impl", "assembly") =>
              target_arch \in {"x86", "x86_64", "arm", "aarch64"}
        /\ Cfg("trap_impl", "wasm32-intrinsic") => target_arch = "wasm32"
        /\ Cfg("trap_impl", "wasm64-intrinsic") => target_arch = "wasm64"
        /\ Cfg("abort_impl", "std") => "std" \in features
        /\ Cfg("abort_impl", "libc") =>
              "libc" \in features /\ "std" \notin features
        /\ buildError # "missing_impl"
        /\ via # "missing"
        /\ "invoke_trap" \in entered => ~Cfg("trap_impl", "fallback")

\* C5 witness: abort() went through immediate_abort() to the assembly trap
C5_Witness ==
    /\ proc = "terminated"
    /\ Cfg("abort_impl", "trap")
    /\ Cfg("trap_impl", "assembly")
    /\ {"abort", "immediate_abort", "invoke_trap"} \subseteq entered
    /\ via \in {"ud2", "udf"}

\* C6: immediate_abort() exists exactly when abort_impl is std, libc or
\* trap; there abort() ends in the selected facility and the crate raises no
\* panic, runs no panic hook and prints no message; with abort_impl fallback
\* immediate_abort() is never entered.
C6_ImmediateAbort ==
    buildState = "compiled" =>
        /\ ImmediateAbortExists
              <=> (CfgValues("abort_impl") \cap {"std", "libc", "trap"} # {})
        /\ ENABLED CallImmediateAbort
              => (CfgValues("abort_impl") \cap {"std", "libc", "trap"} # {})
        /\ Cfg("abort_impl", "fallback") => "immediate_abort" \notin entered
        /\ (~Cfg("abort_impl", "fallback")
              /\ ("abort" \in entered \/ "immediate_abort" \in entered)) =>
              /\ "fallback_abort" \notin entered
              /\ "do_panic" \notin entered
              /\ FatalCount = 0
              /\ FATAL_MSG \notin Range(stderr)
              /\ hookRuns = (IF UserPanicked THEN 1 ELSE 0)
              /\ proc = "terminated" =>
                    /\ "immediate_abort" \in entered
                    /\ Cfg("abort_impl", "std") => via = "std::process::abort"
                    /\ Cfg("abort_impl", "libc") => via = "libc::abort"
                    /\ Cfg("abort_impl", "trap") => via \in TrapInstructions

\* C6 witness: abort() terminated the process through libc::abort
C6_Witness ==
    /\ proc = "terminated"
    /\ entered = {"abort", "immediate_abort"}
    /\ via = "libc::abort"
    /\ panics = <<>>

\* C7: with a trap_impl other than fallback trap() executes the selected trap
\* instruction and enters neither abort() nor the fallback, whatever
\* abort_impl is; with trap_impl fallback it delegates to abort() and ends as
\* abort_impl says.
C7_TrapDispatch ==
    "trap" \in entered =>
        /\ ~Cfg("trap_impl", "fallback") =>
              /\ entered \subseteq {"trap", "invoke_trap"}
              /\ panics = <<>>
              /\ proc = "terminated" =>
                    /\ stack = <<"main", "trap", "invoke_trap">>
                    /\ via \in TrapInstructions
        /\ Cfg("trap_impl", "fallback") =>
              /\ "invoke_trap" \notin entered
              /\ ~Cfg("abort_impl", "trap")
              /\ proc = "terminated" =>
                    /\ SubSeq(stack, 1, 3) = <<"main", "trap", "abort">>
                    /\ Cfg("abort_impl", "std") => via = "std::process::abort"
                    /\ Cfg("abort_impl", "libc") => via = "libc::abort"
                    /\ Cfg("abort_impl", "fallback") =>
                          via \in {"panic-abort", "panic-while-panicking"}

\* C7 witness: abort_impl is fallback, yet trap() ended in the instruction
C7_Witness ==
    /\ proc = "terminated"
    /\ "trap" \in entered
    /\ Cfg("abort_impl", "fallback")
    /\ ~Cfg("trap_impl", "fallback")
    /\ via \in TrapInstructions

\* C8: creating a guard changes nothing observable; defuse() runs no release
\* action, so a program whose guards were all defused exits normally without
\* abort(); a guard disposed in any other way (end of scope, unwinding) runs
\* its release action, which calls abort(), and the process does not exit
\* normally nor let the panic out.
C8_AbortGuard ==
    /\ (created > 0 /\ entered = {} /\ panics = <<>>) =>
          /\ proc = "running" \/ (proc = "exited" /\ Armed = 0)
          /\ via = "none" /\ stderr = <<>> /\ stack = <<"main">>
    /\ defused + dropped <= created
    /\ (dropped > 0) <=> ("AbortGuard_drop" \in entered)
    /\ dropped <= 1
    /\ (defused = created /\ ~ApiCalled) =>
          (proc \in {"unbuilt", "running", "exited"} /\ "abort" \notin entered)
    /\ proc = "exited" => (Armed = 0 /\ dropped = 0 /\ entered = {})
    /\ dropped > 0 =>
          /\ proc \in {"running", "terminated"}
          /\ Len(stack) >= 2 /\ stack[2] = "AbortGuard_drop"
          /\ proc = "terminated" => "abort" \in entered

\* C8 witness: one guard was defused, a second one was destroyed by an
\* unwind started inside its scope, and the process is terminated
C8_Witness ==
    /\ created = 2 /\ defused = 1 /\ dropped = 1
    /\ UserPanicked
    /\ "abort" \in entered
    /\ proc = "terminated"

\* C9: with always-immediate-abort the build fails exactly when abort_impl
\* is fallback (no std, no libc, no usable abort-via-trap); a build that
\* succeeds has an immediate strategy and never runs the panic fallback.
C9_StrictMode ==
    ("always-immediate-abort" \in features
        /\ buildState \in {"compiled", "failed"}) =>
        /\ buildState = "failed" <=> Cfg("abort_impl", "fallback")
        /\ buildState = "failed" <=>
              /\ "std" \notin features
              /\ "libc" \notin features
              /\ ~("abort-via-trap" \in features
                     /\ ~Cfg("trap_impl", "fallback"))
        /\ buildState = "failed" => buildError = "compile_error"
        /\ buildState = "compiled" =>
              /\ CfgValues("abort_impl") \cap {"std", "libc", "trap"} # {}
              /\ "fallback_abort" \notin entered
              /\ FatalCount = 0

\* C9 witness: abort-via-trap was requested but no trap exists, so the
\* strict build failed
C9_Witness ==
    /\ "always-immediate-abort" \in features
    /\ "abort-via-trap" \in features
    /\ Cfg("trap_impl", "fallback")
    /\ buildState = "failed"
    /\ buildError = "compile_error"

\* the toolchain reported that panics abort
KnownToAbort == Cfg("has_cfg_panic", "") /\ panic_strategy = "abort"

\* C10 as stated: when panics are known to abort the fallback raises exactly
\* one panic; otherwise the guard is established, its release action raises
\* the second panic while the first propagates, and that one terminates the
\* process.
C10_Original ==
    ("fallback_abort" \in entered /\ proc = "terminated") =>
        /\ proc # "unwound"
        /\ IF KnownToAbort
           THEN FatalCount = 1
           ELSE /\ FatalCount = 2
                /\ dpGuard = "dropped"
                /\ via = "panic-while-panicking"

\* the first panic of the fallback starts an unwind: panics unwind and no
\* other panic is propagating when it is raised
FirstPanicUnwinds == panic_strategy = "unwind" /\ ~UserPanicked

\* C10 amended: when panics are known to abort exactly one panic is raised
\* and terminates; otherwise the guard is established before the first
\* panic; if that panic starts an unwind the guard's release action raises
\* the second panic, which terminates the process inside fallback_abort; if
\* it does not (panic=abort not reported by the toolchain, or abort() called
\* while another panic propagates) the first panic terminates the process.
\* Unwinding never leaves fallback_abort, at most two panics are raised, all
\* with the fixed message.
C10_FallbackProtocol ==
    "fallback_abort" \in entered =>
        /\ proc \in {"running", "terminated"}
        /\ "fallback_abort" \in Range(stack)
        /\ Len(panics) <= 2
        /\ FatalCount = Len(panics) - (IF UserPanicked THEN 1 ELSE 0)
        /\ KnownToAbort =>
              /\ dpGuard = "none"
              /\ proc = "terminated" =>
                    (FatalCount = 1 /\ via = "panic-abort")
        /\ ~KnownToAbort =>
              /\ FatalCount >= 1 => dpGuard # "none"
              /\ "do_panic" \in entered => dpGuard # "none"
              /\ proc = "terminated" =>
                    IF FirstPanicUnwinds
                    THEN /\ FatalCount = 2
                         /\ dpGuard = "dropped"
                         /\ "DoublePanicGuard_drop" \in Range(stack)
                         /\ via = "panic-while-panicking"
                    ELSE /\ FatalCount = 1
                         /\ dpGuard = "live"
                         /\ via = (IF panic_strategy = "abort"
                                   THEN "panic-abort"
                                   ELSE "panic-while-panicking")

\* C10 witness: with a custom hook installed the second panic, raised by the
\* guard, terminated the process
C10_Witness ==
    /\ proc = "terminated"
    /\ hook = "custom"
    /\ panics = <<FATAL_MSG, FATAL_MSG>>
    /\ dpGuard = "dropped"
    /\ stack = <<"main", "abort", "fallback_abort", "DoublePanicGuard_drop",
                 "do_panic">>

====
